---- MODULE Spec2Model ----
(***************************************************************************)
(* Energy-Tracker (Django app "meter"): two tables (MeterReading, Tariff), *)
(* the view input_data (GET: blank forms, POST: validate and save each     *)
(* form on its own, then redirect) and the view dashboard (latest tariff,  *)
(* readings ordered by date, one cost per reading).                        *)
(*                                                                         *)
(* Encoding.  A request field is the text the client sent, kept as a       *)
(* record that spells the text out (so that parsing is a real conversion): *)
(*   numeric field  [form, neg, whole, point, frac]                        *)
(*       form "absent" : key missing or empty string                       *)
(*       form "text"   : something that is no number, e.g. "abc"           *)
(*       form "number" : [-]whole[.frac]  (point says whether ".frac" was  *)
(*                       written; frac is one decimal digit)               *)
(*   date field     [form, y, m, d]  with form "absent" or "iso" (Y-M-D)   *)
(* kwh_used is a float in the code; the model keeps it in tenths of a kWh  *)
(* (an integer), so a cost is in tenths of the tariff's unit.              *)
(* Optional values (Python None) are sequences of length 0 or 1.           *)
(***************************************************************************)
EXTENDS Integers, Sequences, FiniteSets, TLC

VARIABLES
    readings,   \* table meter_meterreading, rows in primary-key order
    tariffs,    \* table meter_tariff, rows in primary-key order
    request,    \* the request of the handler that ran last (or is running)
    response,   \* the response that handler returned
    pc,         \* position of the dashboard request being served step by step
    d_tariff,   \* dashboard local `tariff`            (views.py:30)
    d_cache,    \* dashboard local `readings`: the queryset's result cache
    d_dates,    \* dashboard local `dates`             (views.py:35)
    d_kwh,      \* dashboard local `kwh`               (views.py:36)
    d_costs,    \* dashboard local `costs`             (views.py:37)
    s_pending   \* a POST between its two saves: <<its price_per_kwh field>>, else <<>>

vars == <<readings, tariffs, request, response, pc,
          d_tariff, d_cache, d_dates, d_kwh, d_costs, s_pending>>

locals == <<d_tariff, d_cache, d_dates, d_kwh, d_costs>>

(***************************************************************************)
(* Bounds of the model and the request fields that are tried.              *)
(***************************************************************************)
MaxRows == 3      \* rows the two tables hold together, at most

Absent == [form |-> "absent", neg |-> FALSE, whole |-> 0, point |-> FALSE, frac |-> 0]
Text == [form |-> "text", neg |-> FALSE, whole |-> 0, point |-> FALSE, frac |-> 0]
Num(neg, whole, point, frac) ==
    [form |-> "number", neg |-> neg, whole |-> whole, point |-> point, frac |-> frac]

\* "", "abc", "10", "2.5"
KwhFields == {Absent, Text, Num(FALSE, 10, FALSE, 0), Num(FALSE, 2, TRUE, 5)}
\* "", "abc", "1.5", "0", "15", "15.0", "-5"
PriceFields == {Absent, Text, Num(FALSE, 1, TRUE, 5), Num(FALSE, 0, FALSE, 0),
                Num(FALSE, 15, FALSE, 0), Num(FALSE, 15, TRUE, 0),
                Num(TRUE, 5, FALSE, 0)}

NoDate == [form |-> "absent", y |-> 0, m |-> 0, d |-> 0]
Iso(y, m, d) == [form |-> "iso", y |-> y, m |-> m, d |-> d]
\* "", "2023-12-31", "2024-02-29", "2023-02-29" (no such day)
DateFields == {NoDate, Iso(2023, 12, 31), Iso(2024, 2, 29), Iso(2023, 2, 29)}

(***************************************************************************)
(* Field cleaning: django.forms fields as declared by the two ModelForms.  *)
(***************************************************************************)
IsLeap(y) == (y % 4 = 0 /\ y % 100 # 0) \/ y % 400 = 0

DaysIn(y, m) ==
    IF m = 2 THEN (IF IsLeap(y) THEN 29 ELSE 28)
    ELSE IF m \in {4, 6, 9, 11} THEN 30 ELSE 31

\* forms.DateField (required): the text must name a day of the calendar.
DateFieldValid(f) ==
    /\ f.form = "iso"
    /\ f.m \in 1..12
    /\ f.d >= 1
    /\ f.d <= DaysIn(f.y, f.m)

DateFieldClean(f) == [y |-> f.y, m |-> f.m, d |-> f.d]

\* forms.FloatField (required) for models.FloatField: any finite number.
FloatFieldValid(f) == f.form = "number"

\* Variant: the text is cut to its whole part, as int(text) would.
FloatFieldTruncate(f) ==
    IF f.neg THEN 0 - 10 * f.whole ELSE 10 * f.whole

\* float(text), in tenths
FloatFieldClean(f) ==
    IF f.neg THEN 0 - (10 * f.whole + f.frac) ELSE 10 * f.whole + f.frac

\* forms.IntegerField (required) for models.IntegerField: a trailing ".0" is
\* dropped, then int(text) must succeed.  The widget's min=0 is an HTML
\* attribute of the rendered <input>; the field has no min_value.
IntegerFieldValid(f) ==
    /\ f.form = "number"
    /\ (f.point => f.frac = 0)

IntegerFieldClean(f) == IF f.neg THEN 0 - f.whole ELSE f.whole

\* MeterReadingForm(request.POST).is_valid()
MeterReadingFormValid(req) ==
    DateFieldValid(req.date) /\ FloatFieldValid(req.kwh_used)

\* TariffForm(request.POST).is_valid()
TariffFormValid(req) == IntegerFieldValid(req.price_per_kwh)

(***************************************************************************)
(* The record store.                                                       *)
(***************************************************************************)
\* meter_form.save(): INSERT one MeterReading row, next primary key
MeterReadingSave(table, req) ==
    Append(table, [id |-> Len(table) + 1,
                   date |-> DateFieldClean(req.date),
                   kwh_used |-> FloatFieldClean(req.kwh_used)])

\* Variant: one tariff row that each save overwrites.
TariffReplace(table, req) ==
    <<[id |-> 1, price_per_kwh |-> IntegerFieldClean(req.price_per_kwh)]>>

\* tariff_form.save(): INSERT one Tariff row, next primary key
TariffSave(table, req) ==
    Append(table, [id |-> Len(table) + 1,
                   price_per_kwh |-> IntegerFieldClean(req.price_per_kwh)])

\* Variant: Tariff.objects.first().
TariffFirst(table) ==
    IF Len(table) = 0 THEN <<>> ELSE <<table[1]>>

\* Tariff.objects.last(): the row with the greatest primary key, or None
TariffLast(table) ==
    IF Len(table) = 0 THEN <<>> ELSE <<table[Len(table)]>>

\* readings.exists(): a query of its own (SELECT ... LIMIT 1)
ReadingsExist(table) == Len(table) > 0

DateLE(a, b) ==
    \/ a.y < b.y
    \/ a.y = b.y /\ a.m < b.m
    \/ a.y = b.y /\ a.m = b.m /\ a.d <= b.d

IsSortedByDate(rows) ==
    \A i \in 1..Len(rows) : \A j \in 1..Len(rows) :
        i < j => DateLE(rows[i].date, rows[j].date)

Orderings(n) ==
    {p \in [1..n -> 1..n] : \A i \in 1..n : \A j \in 1..n : i # j => p[i] # p[j]}

\* Variant: no order_by, the rows come in primary-key order.
ReadingsInKeyOrder(table) == {table}

\* MeterReading.objects.all().order_by('date'), evaluated: every row, ascending
\* by date; the order among rows of one date is the database's choice.
ReadingsOrderByDate(table) ==
    {rows \in {[i \in 1..Len(table) |-> table[p[i]]] : p \in Orderings(Len(table))} :
        IsSortedByDate(rows)}

\* Variant: a queryset without result cache, every iteration runs the query.
QuerySetRequery(cache, table) == ReadingsOrderByDate(table)

\* Iterating the queryset `readings`: the first iteration runs the query and
\* keeps the rows in the queryset's result cache; a later one reads the cache.
\* cache is <<>> (not evaluated yet) or <<rows>>.
QuerySetIter(cache, table) ==
    IF cache = <<>> THEN ReadingsOrderByDate(table) ELSE {cache[1]}

(***************************************************************************)
(* Requests and responses.                                                 *)
(***************************************************************************)
Get(path) ==
    [method |-> "GET", path |-> path,
     date |-> NoDate, kwh_used |-> Absent, price_per_kwh |-> Absent]

Post(date, kwh, price) ==
    [method |-> "POST", path |-> "/",
     date |-> date, kwh_used |-> kwh, price_per_kwh |-> price]

NoRequest ==
    [method |-> "", path |-> "",
     date |-> NoDate, kwh_used |-> Absent, price_per_kwh |-> Absent]

Posts == {Post(dt, k, p) : dt \in DateFields, k \in KwhFields, p \in PriceFields}

NoResponse ==
    [kind |-> "none", target |-> "", error |-> "", forms |-> <<>>,
     chart |-> <<>>, readings |-> <<>>, tariff |-> <<>>]

\* redirect('dashboard')
Redirect(name) == [NoResponse EXCEPT !.kind = "redirect", !.target = name]

\* render(request, template, context)
Render(template, error, forms, chart, rows, tariff) ==
    [kind |-> "render", target |-> template, error |-> error, forms |-> forms,
     chart |-> chart, readings |-> rows, tariff |-> tariff]

\* MeterReadingForm() and TariffForm(): unbound forms, no data
BlankMeterReadingForm ==
    [bound |-> FALSE, fields |-> <<"date", "kwh_used">>, initial |-> <<>>]

BlankTariffForm ==
    [bound |-> FALSE, fields |-> <<"price_per_kwh">>, initial |-> <<>>]

\* plt.plot(dates, costs, ...) ... base64: the image of the series
Chart(dates, costs) == [dates |-> dates, costs |-> costs]

(***************************************************************************)
(* input_data                                                              *)
(***************************************************************************)
\* if meter_form.is_valid(): meter_form.save()
MeterStep(table, req) ==
    IF MeterReadingFormValid(req) THEN MeterReadingSave(table, req) ELSE table

\* if tariff_form.is_valid(): tariff_form.save()
TariffStep(table, req) ==
    IF TariffFormValid(req) THEN TariffSave(table, req) ELSE table

\* Variant: a form that did not validate is shown again with its errors.
PostResponseRerender(req) ==
    IF MeterReadingFormValid(req) /\ TariffFormValid(req)
    THEN Redirect("dashboard")
    ELSE Render("input.html", "",
                <<[BlankMeterReadingForm EXCEPT !.bound = TRUE],
                  [BlankTariffForm EXCEPT !.bound = TRUE]>>,
                <<>>, <<>>, <<>>)

\* what a POST returns
PostResponse(req) == Redirect("dashboard")

InBounds(rt, tt) == Len(rt) + Len(tt) <= MaxRows

NoLocals ==
    /\ d_tariff' = <<>>
    /\ d_cache' = <<>>
    /\ d_dates' = <<>>
    /\ d_kwh' = <<>>
    /\ d_costs' = <<>>

\* request.method == "POST", the whole handler
InputDataPost ==
    \E req \in Posts :
        /\ pc = "idle"
        /\ request' = req
        /\ readings' = MeterStep(readings, req)
        /\ tariffs' = TariffStep(tariffs, req)
        /\ InBounds(readings', tariffs')
        /\ response' = PostResponse(req)
        /\ NoLocals
        /\ UNCHANGED <<pc, s_pending>>

\* Variant: the tariff form comes prefilled with the current tariff.
InputDataGetPrefilled ==
    /\ pc = "idle"
    /\ request' = Get("/")
    /\ response' = Render("input.html", "",
                          <<BlankMeterReadingForm,
                            [BlankTariffForm EXCEPT !.initial = TariffLast(tariffs)]>>,
                          <<>>, <<>>, <<>>)
    /\ NoLocals
    /\ UNCHANGED <<readings, tariffs, pc, s_pending>>

\* any other method: two new unbound forms, rendered
InputDataGet ==
    /\ pc = "idle"
    /\ request' = Get("/")
    /\ response' = Render("input.html", "",
                          <<BlankMeterReadingForm, BlankTariffForm>>,
                          <<>>, <<>>, <<>>)
    /\ NoLocals
    /\ UNCHANGED <<readings, tariffs, pc, s_pending>>

(***************************************************************************)
(* dashboard                                                               *)
(***************************************************************************)
\* Variant: the price is tested for truth, so a price of 0 counts as no tariff.
NotTariffOrFree(tariff) == tariff = <<>> \/ tariff[1].price_per_kwh = 0

\* `not tariff`: a model instance is truthy, only None is not
NotTariff(tariff) == tariff = <<>>

\* if not readings.exists() or not tariff
NoData(table, tariff) == ~ReadingsExist(table) \/ NotTariff(tariff)

NoDataResponse ==
    Render("dashboard.html", "No data available.", <<>>, <<>>, <<>>, <<>>)

Dates(rows) == [i \in 1..Len(rows) |-> rows[i].date]

Kwh(rows) == [i \in 1..Len(rows) |-> rows[i].kwh_used]

Costs(rows, tariff) ==
    [i \in 1..Len(rows) |-> rows[i].kwh_used * tariff[1].price_per_kwh]

ChartResponse(dates, costs, cache, tariff) ==
    Render("dashboard.html", "", <<>>, <<Chart(dates, costs)>>, cache[1], tariff)

\* the whole handler, nothing else running
Dashboard ==
    /\ pc = "idle"
    /\ request' = Get("/dashboard/")
    /\ d_tariff' = TariffLast(tariffs)
    /\ IF NoData(readings, d_tariff')
       THEN /\ response' = NoDataResponse
            /\ d_cache' = <<>>
            /\ d_dates' = <<>>
            /\ d_kwh' = <<>>
            /\ d_costs' = <<>>
       ELSE \E r1 \in QuerySetIter(<<>>, readings) :
            \E r2 \in QuerySetIter(<<r1>>, readings) :
            \E r3 \in QuerySetIter(<<r1>>, readings) :
                /\ d_cache' = <<r1>>
                /\ d_dates' = Dates(r1)
                /\ d_kwh' = Kwh(r2)
                /\ d_costs' = Costs(r3, d_tariff')
                /\ response' = ChartResponse(d_dates', d_costs', d_cache', d_tariff')
    /\ UNCHANGED <<readings, tariffs, pc, s_pending>>

Init ==
    /\ readings = <<>>
    /\ tariffs = <<>>
    /\ request = NoRequest
    /\ response = NoResponse
    /\ pc = "idle"
    /\ d_tariff = <<>>
    /\ d_cache = <<>>
    /\ d_dates = <<>>
    /\ d_kwh = <<>>
    /\ d_costs = <<>>
    /\ s_pending = <<>>

Next == InputDataPost \/ InputDataGet \/ Dashboard

Spec == Init /\ [][Next]_vars

(***************************************************************************)
(* The same two views served concurrently: one POST and one dashboard      *)
(* request in flight, every database query a step of its own.  request and *)
(* response are the dashboard's here.                                      *)
(***************************************************************************)
\* views.py:15-16, the first save of a POST
SubmitMeter ==
    \E req \in Posts :
        /\ s_pending = <<>>
        /\ readings' = MeterStep(readings, req)
        /\ InBounds(readings', TariffStep(tariffs, req))
        /\ s_pending' = <<req.price_per_kwh>>
        /\ UNCHANGED <<tariffs, request, response, pc, locals>>

\* views.py:18-21, the second save of that POST
SubmitTariff ==
    /\ s_pending # <<>>
    /\ tariffs' = TariffStep(tariffs, Post(NoDate, Absent, s_pending[1]))
    /\ s_pending' = <<>>
    /\ UNCHANGED <<readings, request, response, pc, locals>>

\* views.py:29-30: the queryset is built (no query yet), the tariff is read
DashTariff ==
    /\ pc = "idle"
    /\ pc' = "l32"
    /\ request' = Get("/dashboard/")
    /\ response' = NoResponse
    /\ d_tariff' = TariffLast(tariffs)
    /\ d_cache' = <<>>
    /\ d_dates' = <<>>
    /\ d_kwh' = <<>>
    /\ d_costs' = <<>>
    /\ UNCHANGED <<readings, tariffs, s_pending>>

\* views.py:32-33
DashCheck ==
    /\ pc = "l32"
    /\ IF NoData(readings, d_tariff)
       THEN pc' = "idle" /\ response' = NoDataResponse
       ELSE pc' = "l35" /\ response' = response
    /\ UNCHANGED <<readings, tariffs, request, locals, s_pending>>

\* views.py:35
DashDates ==
    /\ pc = "l35"
    /\ \E rows \in QuerySetIter(d_cache, readings) :
        /\ d_cache' = <<rows>>
        /\ d_dates' = Dates(rows)
    /\ pc' = "l36"
    /\ UNCHANGED <<readings, tariffs, request, response, d_tariff, d_kwh, d_costs, s_pending>>

\* views.py:36
DashKwh ==
    /\ pc = "l36"
    /\ \E rows \in QuerySetIter(d_cache, readings) :
        d_kwh' = Kwh(rows)
    /\ pc' = "l37"
    /\ UNCHANGED <<readings, tariffs, request, response, d_tariff, d_cache, d_dates, d_costs, s_pending>>

\* views.py:37
DashCosts ==
    /\ pc = "l37"
    /\ \E rows \in QuerySetIter(d_cache, readings) :
        d_costs' = Costs(rows, d_tariff)
    /\ pc' = "l55"
    /\ UNCHANGED <<readings, tariffs, request, response, d_tariff, d_cache, d_dates, d_kwh, s_pending>>

\* views.py:39-55
DashRender ==
    /\ pc = "l55"
    /\ response' = ChartResponse(d_dates, d_costs, d_cache, d_tariff)
    /\ pc' = "idle"
    /\ UNCHANGED <<readings, tariffs, request, locals, s_pending>>

NextConc ==
    \/ SubmitMeter
    \/ SubmitTariff
    \/ DashTariff
    \/ DashCheck
    \/ DashDates
    \/ DashKwh
    \/ DashCosts
    \/ DashRender

SpecConc == Init /\ [][NextConc]_vars

(***************************************************************************)
(* What the claims speak of, stated on the request text and the tables     *)
(* (not through the forms' own validation).                                *)
(***************************************************************************)
IsPrefix(a, b) ==
    /\ Len(a) <= Len(b)
    /\ \A i \in 1..Len(a) : a[i] = b[i]

\* the text is a number whose value is an integer at least 0
IsNonNegativeInteger(f) ==
    /\ f.form = "number"
    /\ (f.point => f.frac = 0)
    /\ (f.neg => f.whole = 0)

\* the text is a non-integer or a negative integer (or no number at all)
PriceToReject(f) == ~IsNonNegativeInteger(f)

\* the text names a day of the calendar
IsCalendarDate(f) ==
    /\ f.form = "iso"
    /\ f.m \in 1..12
    /\ f.d \in 1..DaysIn(f.y, f.m)

\* the text is a number at least 0; its value in tenths
IsNonNegativeNumber(f) == f.form = "number" /\ (f.neg => (f.whole = 0 /\ f.frac = 0))

TenthsWritten(f) == 10 * f.whole + f.frac

ReadingWellFormed(req) ==
    IsCalendarDate(req.date) /\ IsNonNegativeNumber(req.kwh_used)

IsPost(req) == req.method = "POST"

ShowsChart(resp) ==
    resp.kind = "render" /\ resp.target = "dashboard.html" /\ resp.chart # <<>>

ShowsNoData(resp) ==
    /\ resp.kind = "render"
    /\ resp.target = "dashboard.html"
    /\ resp.error = "No data available."
    /\ resp.chart = <<>>

DashboardServed == request = Get("/dashboard/") /\ response # NoResponse

\* rows holds every row of table exactly once
SameRows(rows, table) ==
    /\ Len(rows) = Len(table)
    /\ \A k \in 1..Len(table) :
        Cardinality({i \in 1..Len(rows) : rows[i] = table[k]}) = 1

(***************************************************************************)
(* C1.  A POST whose price field is a non-integer or a negative integer    *)
(* creates no Tariff, and the tariff the dashboard would use stays the     *)
(* same.  (Stated as the claim states it; the code breaks it.)             *)
(***************************************************************************)
C1_RejectedPriceCreatesNoTariff ==
    [][(IsPost(request') /\ PriceToReject(request'.price_per_kwh))
         => (tariffs' = tariffs /\ TariffLast(tariffs') = TariffLast(tariffs))]_vars

(***************************************************************************)
(* C2.  Whenever the dashboard is served from a store with at least one    *)
(* reading and one tariff, every cost of its series is that reading's      *)
(* kwh_used times the price of the tariff created last; no earlier tariff  *)
(* enters any cost.                                                        *)
(***************************************************************************)
C2_CostsUseLatestTariff ==
    (DashboardServed /\ Len(readings) > 0 /\ Len(tariffs) > 0) =>
        /\ ShowsChart(response)
        /\ LET costs == response.chart[1].costs
               dates == response.chart[1].dates
               rows == response.readings
           IN  /\ Len(costs) = Len(readings)
               /\ Len(dates) = Len(costs)
               /\ SameRows(rows, readings)
               /\ \A i \in 1..Len(costs) :
                    /\ dates[i] = rows[i].date
                    /\ costs[i] = rows[i].kwh_used * tariffs[Len(tariffs)].price_per_kwh

\* two tariffs of different price, a reading that used energy, the chart shown
C2_Witness ==
    /\ DashboardServed
    /\ ShowsChart(response)
    /\ Len(tariffs) = 2
    /\ tariffs[1].price_per_kwh = 15
    /\ tariffs[2].price_per_kwh = 0
    /\ Len(readings) = 1
    /\ readings[1].kwh_used = 25

(***************************************************************************)
(* C3.  The dashboard answers "No data available." with no chart exactly   *)
(* when there is no reading or no tariff; otherwise it answers with the    *)
(* chart and the data, also when the tariff's price is 0.                  *)
(***************************************************************************)
C3_NoDataIffEmpty ==
    DashboardServed =>
        /\ ShowsNoData(response) <=> (Len(readings) = 0 \/ Len(tariffs) = 0)
        /\ ShowsChart(response) <=> ~ShowsNoData(response)
        /\ ShowsChart(response) =>
            /\ response.error = ""
            /\ response.tariff = <<tariffs[Len(tariffs)]>>
            /\ Len(response.readings) > 0

\* a reading and a tariff of price 0: the chart is shown
C3_Witness ==
    /\ DashboardServed
    /\ Len(readings) > 0
    /\ Len(tariffs) > 0
    /\ tariffs[Len(tariffs)].price_per_kwh = 0
    /\ ShowsChart(response)
    /\ response.error = ""

(***************************************************************************)
(* C4.  A POST whose reading fields are a calendar date and a number at    *)
(* least 0 adds exactly one Reading, with that date and that number,       *)
(* whatever its price field holds.                                         *)
(***************************************************************************)
C4_WellFormedReadingStored ==
    [][(IsPost(request') /\ ReadingWellFormed(request'))
         => /\ Len(readings') = Len(readings) + 1
            /\ IsPrefix(readings, readings')
            /\ LET new == readings'[Len(readings')]
               IN  /\ new.date.y = request'.date.y
                   /\ new.date.m = request'.date.m
                   /\ new.date.d = request'.date.d
                   /\ new.kwh_used = TenthsWritten(request'.kwh_used)]_vars

\* "2024-02-29" and "2.5" were posted with the price "abc": the reading is there
C4_Witness ==
    /\ IsPost(request)
    /\ request.date = Iso(2024, 2, 29)
    /\ request.kwh_used = Num(FALSE, 2, TRUE, 5)
    /\ request.price_per_kwh = Text
    /\ Len(readings) > 0
    /\ readings[Len(readings)].date = [y |-> 2024, m |-> 2, d |-> 29]
    /\ readings[Len(readings)].kwh_used = 25
    /\ Len(tariffs) = 0

(***************************************************************************)
(* C5.  Reading and tariff of one POST are accepted independently: an      *)
(* unparsable kwh_used with a valid price stores the tariff and no         *)
(* reading; a valid reading with an invalid price (a non-integer or a      *)
(* negative one) stores the reading and no tariff.  (Stated as the claim   *)
(* states it; the code breaks the second half for a negative price.)       *)
(***************************************************************************)
C5_AcceptedIndependently ==
    [][IsPost(request') =>
        /\ (request'.kwh_used.form = "text"
              /\ IsNonNegativeInteger(request'.price_per_kwh))
            => (readings' = readings /\ Len(tariffs') = Len(tariffs) + 1)
        /\ (ReadingWellFormed(request') /\ PriceToReject(request'.price_per_kwh))
            => (Len(readings') = Len(readings) + 1 /\ tariffs' = tariffs)]_vars

(***************************************************************************)
(* C6.  The dashboard's series is all stored readings in ascending order   *)
(* of date: the dates never decrease, and every reading ever stored is one *)
(* point of the series, readings of one date included.                     *)
(***************************************************************************)
C6_SeriesSortedAndComplete ==
    (DashboardServed /\ ShowsChart(response)) =>
        LET dates == response.chart[1].dates
            rows == response.readings
        IN  /\ Len(dates) = Len(readings)
            /\ Len(response.chart[1].costs) = Len(readings)
            /\ SameRows(rows, readings)
            /\ \A i \in 1..Len(dates) : dates[i] = rows[i].date
            /\ \A i \in 1..Len(dates) : \A j \in 1..Len(dates) :
                i < j => DateLE(dates[i], dates[j])

\* the later date was submitted first; the series starts with the earlier one
C6_Witness ==
    /\ DashboardServed
    /\ ShowsChart(response)
    /\ Len(readings) = 2
    /\ readings[1].date = [y |-> 2024, m |-> 2, d |-> 29]
    /\ readings[2].date = [y |-> 2023, m |-> 12, d |-> 31]
    /\ response.chart[1].dates[1] = [y |-> 2023, m |-> 12, d |-> 31]

(***************************************************************************)
(* C7.  Every POST to input_data is answered by a redirect to the          *)
(* dashboard, whatever the payload; none is answered by the form again or  *)
(* by an error.                                                            *)
(***************************************************************************)
C7_PostAlwaysRedirects ==
    IsPost(request) =>
        /\ response.kind = "redirect"
        /\ response.target = "dashboard"
        /\ response.error = ""
        /\ response.forms = <<>>

\* the empty payload was posted: nothing stored, redirect all the same
C7_Witness ==
    /\ request = Post(NoDate, Absent, Absent)
    /\ response.kind = "redirect"
    /\ readings = <<>>
    /\ tariffs = <<>>

(***************************************************************************)
(* C8.  The store only grows: every step keeps each row of both tables as  *)
(* it is, and adds at most one Reading and at most one Tariff.             *)
(***************************************************************************)
C8_AppendOnly ==
    [][/\ IsPrefix(readings, readings')
       /\ IsPrefix(tariffs, tariffs')
       /\ Len(readings') <= Len(readings) + 1
       /\ Len(tariffs') <= Len(tariffs) + 1]_vars

\* after a POST with a valid reading and a valid price: the older tariff is
\* still row 1, beside the newer one of another price
C8_Witness ==
    /\ IsPost(request)
    /\ Len(tariffs) = 2
    /\ Len(readings) = 1
    /\ ReadingWellFormed(request)
    /\ IsNonNegativeInteger(request.price_per_kwh)
    /\ tariffs[1].price_per_kwh # tariffs[2].price_per_kwh

\* two unbound forms without data, and nothing of the store
IsBlankTemplate(resp) ==
    /\ resp.kind = "render"
    /\ resp.target = "input.html"
    /\ resp.error = ""
    /\ Len(resp.forms) = 2
    /\ \A i \in 1..2 : ~resp.forms[i].bound /\ resp.forms[i].initial = <<>>
    /\ resp.forms[1].fields = <<"date", "kwh_used">>
    /\ resp.forms[2].fields = <<"price_per_kwh">>
    /\ resp.chart = <<>>
    /\ resp.readings = <<>>
    /\ resp.tariff = <<>>

(***************************************************************************)
(* C9.  GET on input_data leaves both tables as they are and answers with  *)
(* two unbound, unfilled forms that do not depend on the tables; two GETs  *)
(* in a row give the same answer.                                          *)
(***************************************************************************)
C9_BlankFormPure ==
    [][request' = Get("/") =>
        /\ readings' = readings
        /\ tariffs' = tariffs
        /\ IsBlankTemplate(response')
        /\ request = Get("/") => response' = response]_vars

\* the blank form was asked for while readings and a tariff are stored
C9_Witness ==
    /\ request = Get("/")
    /\ IsBlankTemplate(response)
    /\ Len(readings) > 0
    /\ Len(tariffs) > 0

\* the readings table as it was at some earlier moment: rows are only added
Snapshots(table) == {SubSeq(table, 1, n) : n \in 1..Len(table)}

SeriesBuilt == pc = "l55" \/ (pc = "idle" /\ ShowsChart(response))

(***************************************************************************)
(* C10.  With submissions running between the dashboard's queries, a       *)
(* dashboard request that gets past the no-data check builds dates, kwh    *)
(* and costs of one non-zero length from one snapshot of the readings (the *)
(* table as it was at one moment, ordered by date), every cost with the    *)
(* one tariff the request read; the response shows that series.            *)
(***************************************************************************)
C10_OneSnapshotOneTariff ==
    /\ pc \in {"l35", "l36", "l37", "l55"} => (Len(readings) > 0 /\ d_tariff # <<>>)
    /\ SeriesBuilt =>
        /\ d_cache # <<>>
        /\ d_tariff # <<>>
        /\ \E k \in 1..Len(tariffs) : d_tariff[1] = tariffs[k]
        /\ Len(d_dates) > 0
        /\ Len(d_kwh) = Len(d_dates)
        /\ Len(d_costs) = Len(d_dates)
        /\ \E snap \in Snapshots(readings) : d_cache[1] \in ReadingsOrderByDate(snap)
        /\ d_dates = Dates(d_cache[1])
        /\ d_kwh = Kwh(d_cache[1])
        /\ \A i \in 1..Len(d_costs) :
            d_costs[i] = d_cache[1][i].kwh_used * d_tariff[1].price_per_kwh
    /\ (pc = "idle" /\ ShowsChart(response)) =>
        /\ response.chart[1] = Chart(d_dates, d_costs)
        /\ response.readings = d_cache[1]
        /\ response.tariff = d_tariff

\* the three lists are built, each of the one row fetched, and a second
\* reading has been inserted since the fetch
C10_Witness ==
    /\ pc = "l55"
    /\ Len(d_dates) = 1
    /\ Len(d_kwh) = 1
    /\ Len(d_costs) = 1
    /\ Len(readings) = 2
    /\ readings[1].date = [y |-> 2024, m |-> 2, d |-> 29]
    /\ readings[2].date = [y |-> 2023, m |-> 12, d |-> 31]

====
